---- MODULE Spec2Model ----
(***************************************************************************)
(* Survey lifecycle of the repository AI-force.  The repository holds two  *)
(* independent implementations of the same workflow:                       *)
(*   CustomerSurveyProgram.py   role classes (LeadManager,                  *)
(*                              CenterOfExcellence, Customer) acting on    *)
(*                              Survey objects handed to them;             *)
(*   customer_survey_program.py a SurveyManager owning a dict of surveys   *)
(*                              addressed by id.                           *)
(* Each is a program of its own; the variable `program` says which one     *)
(* runs in a behaviour, and every action belongs to one of them.           *)
(***************************************************************************)
EXTENDS Integers, Sequences, FiniteSets, TLC

VARIABLES program, objects, surveys, outbox, now, last, snapshot, scenario,
          threads, users, requests

vars == <<program, objects, surveys, outbox, now, last, snapshot,
          scenario, threads, users, requests>>

\* what the calls of the two programs leave alone: the snapshot a caller of
\* export_survey_data keeps, whether the run is the example flow, the
\* threads of a caller with more than one, and the users collection and the
\* requests of backend/app.py
aside == <<snapshot, scenario, threads, users, requests>>

(***************************************************************************)
(* Bounds of the model.                                                    *)
(***************************************************************************)
\* CustomerSurveyProgram.py: audit records written in one run, on the one
\* Survey object the run creates (the role classes keep no state, so objects
\* do not interact).  customer_survey_program.py: surveys of the
\* SurveyManager, and audit records written, in one run.
\* (The clock advances once per record.)
MaxObjectClock == 5
MaxSurveys == 2
MaxClock == 3
\* the audit records the example flow of either program writes
MaxScenarioObjectClock == 8
MaxScenarioClock == 6
\* backend/app.py: register requests in flight together
MaxRequests == 2

ObjectIds == {1}
SurveyIds == 1..MaxSurveys

(***************************************************************************)
(* Inputs.                                                                 *)
(***************************************************************************)
RoleClasses == "CustomerSurveyProgram"
Manager == "customer_survey_program"
Programs == {RoleClasses, Manager}

Title == "Customer Feedback"
CustomerIds == {"C1", "C2"}
\* the arguments of a creation: a survey for customer C1, one without
\* questions, and one for customer C2 that ends before it starts
CreateArg(questions, start_date, end_date, customer_id) ==
    [questions |-> questions, start_date |-> start_date, end_date |-> end_date,
     customer_id |-> customer_id]
CreateArgs ==
    { CreateArg(<<"Q1", "Q2">>, 1, 2, "C1"),
      CreateArg(<< >>, 1, 2, "C1"),
      CreateArg(<<"Q1", "Q2">>, 2, 1, "C2") }

\* A dict of responses as the caller builds it: its items in insertion order.
Item(q, a) == [q |-> q, a |-> a]
ResponseDicts ==
    { <<Item("Q1", "yes")>>,
      <<Item("Q1", "no"), Item("Q2", "maybe")>>,
      <<Item("Q1", "yes"), Item("X", "no")>> }

\* ---- constants of CustomerSurveyProgram.py
SURVEY_STATUS_DRAFT == "Draft"
SURVEY_STATUS_REVIEW == "Under Review"
SURVEY_STATUS_APPROVED == "Approved"
SURVEY_STATUS_REJECTED == "Rejected"
SURVEY_STATUS_PUBLISHED == "Published"
SURVEY_STATUS_COMPLETED == "Completed"

\* decisions handed to CenterOfExcellence.review_survey
RoleDecisions ==
    {SURVEY_STATUS_APPROVED, SURVEY_STATUS_REJECTED, "approve",
     "request_changes"}

\* ---- constants of customer_survey_program.py
STATUS_PENDING_REVIEW == "Pending Review"
STATUS_APPROVED == "Approved"
STATUS_REJECTED == "Rejected"
STATUS_PUBLISHED == "Published"
STATUS_IN_PROGRESS == "In Progress"
STATUS_COMPLETED == "Completed"

ROLE_LEAD_MANAGER == "Lead Manager"
ROLE_COE == "Center of Excellence"
ROLE_CUSTOMER == "Customer"
Roles == {ROLE_LEAD_MANAGER, ROLE_COE, ROLE_CUSTOMER}

\* decisions handed to SurveyManager.review_survey
Decisions == {"approve", "Reject", "request_changes", "escalate"}

(***************************************************************************)
(* Python helpers.                                                         *)
(***************************************************************************)
\* x in list
InList(x, list) == \E i \in 1..Len(list) : list[i] = x

\* d[k] = v on a dict
DictSet(d, k, v) == [x \in DOMAIN d \cup {k} |-> IF x = k THEN v ELSE d[x]]

EmptyDict == [x \in {} |-> ""]

\* the dict value of a dict literal given by its items (later items win)
RECURSIVE DictOf(_)
DictOf(items) ==
    IF items = << >> THEN EmptyDict
    ELSE LET n == Len(items)
         IN  DictSet(DictOf(SubSeq(items, 1, n - 1)), items[n].q, items[n].a)

\* str.lower() on the decisions of the model
Lower(s) == IF s = "Reject" THEN "reject" ELSE s

IsPrefix(s, t) == Len(s) <= Len(t) /\ SubSeq(t, 1, Len(s)) = s

(***************************************************************************)
(* The outcome of the latest call, as its caller sees it: which operation, *)
(* on which survey, whether it returned normally (ok) or failed (raised /  *)
(* returned False), the exception with its message, and as output the data *)
(* an export handed out (at most one dict, or the rows of the report).     *)
(***************************************************************************)
NoCall ==
    [op |-> "none", sid |-> 0, ok |-> TRUE, raised |-> "", message |-> "",
     output |-> << >>]

\* the result of a method body: the survey as the body leaves it, the
\* exception it ends with ("" when it returns normally), and the data it
\* returns
Return(survey) ==
    [survey |-> survey, raised |-> "", message |-> "", output |-> << >>]
Raise(survey, exception, message) ==
    [survey |-> survey, raised |-> exception, message |-> message,
     output |-> << >>]
ReturnValue(survey, value) ==
    [survey |-> survey, raised |-> "", message |-> "", output |-> <<value>>]

Outcome(op, sid, r) ==
    [op |-> op, sid |-> sid, ok |-> r.raised = "", raised |-> r.raised,
     message |-> r.message, output |-> r.output]

\* the audit records a body appended
Written(before, after) == Len(after.audit_trail) - Len(before.audit_trail)

(***************************************************************************)
(* CustomerSurveyProgram.py                                                *)
(* A timestamp is the value of the clock `now`, which advances once per    *)
(* audit record written.                                                   *)
(***************************************************************************)
\* generate_unique_id / uuid.uuid4: an id no existing survey has
generate_unique_id(used, ids) ==
    CHOOSE id \in ids \ used : \A other \in ids \ used : id <= other

\* Survey.__init__
Survey(title, questions, customer_id, start_date, end_date, ts) ==
    [title |-> title, questions |-> questions, customer_id |-> customer_id,
     start_date |-> start_date, end_date |-> end_date,
     status |-> SURVEY_STATUS_DRAFT, responses |-> EmptyDict,
     audit_trail |-> << >>, created_at |-> ts]

\* f"{current_timestamp()} - {log}"
TimestampedLog(ts, log) == [timestamp |-> ts, log |-> log]

\* add_audit_log assigning a new list instead of appending
add_audit_log_overwriting(survey, log, ts) ==
    [survey EXCEPT !.audit_trail = <<TimestampedLog(ts, log)>>]

\* Survey.add_audit_log
add_audit_log(survey, log, ts) ==
    [survey EXCEPT !.audit_trail = Append(@, TimestampedLog(ts, log))]

\* f"Notification sent to customer {survey.customer_id}."
NotificationLog(customer_id) ==
    CASE customer_id = "C1" -> "Notification sent to customer C1."
      [] customer_id = "C2" -> "Notification sent to customer C2."
      [] OTHER -> "Notification sent to customer ?."

\* f"Error filling survey: Invalid question: {question}"
InvalidQuestion(question) ==
    CASE question = "Q1" -> "Error filling survey: Invalid question: Q1"
      [] question = "Q2" -> "Error filling survey: Invalid question: Q2"
      [] question = "X" -> "Error filling survey: Invalid question: X"
      [] OTHER -> "Error filling survey: Invalid question: ?"

\* the records a run may write
ObjectClockLimit == IF scenario THEN MaxScenarioObjectClock ELSE MaxObjectClock
ClockLimit == IF scenario THEN MaxScenarioClock ELSE MaxClock

Init ==
    /\ program \in Programs
    /\ objects = [s \in {} |-> 0]
    /\ surveys = [s \in {} |-> 0]
    /\ outbox = << >>
    /\ now = 0
    /\ last = NoCall
    /\ snapshot = << >>
    /\ scenario = FALSE
    /\ threads = << >>
    /\ users = << >>
    /\ requests = << >>

\* LeadManager.create_survey: the body
lm_create_survey(title, questions, customer_id, start_date, end_date, ts) ==
    Return(add_audit_log(
               Survey(title, questions, customer_id, start_date, end_date, ts),
               "Survey created by Lead Manager.", ts))

\* LeadManager.create_survey(title, questions, customer_id, start_date, end_date)
LeadManager_create_survey(a) ==
    /\ program = RoleClasses
    /\ DOMAIN objects # ObjectIds
    /\ LET id == generate_unique_id(DOMAIN objects, ObjectIds)
           r == lm_create_survey(Title, a.questions, a.customer_id,
                                 a.start_date, a.end_date, now)
       IN  /\ objects' = [s \in DOMAIN objects \cup {id} |->
                             IF s = id THEN r.survey ELSE objects[s]]
           /\ now' = now + Len(r.survey.audit_trail)
           /\ last' = Outcome("create", id, r)
    /\ now' <= ObjectClockLimit
    /\ UNCHANGED <<aside, program, surveys, outbox>>

\* the step of a role-class method on the Survey object id, given the
\* result r of its body
ObjectStep(op, id, r) ==
    /\ program = RoleClasses
    /\ id \in DOMAIN objects
    /\ last' = Outcome(op, id, r)
    /\ now' = now + Written(objects[id], r.survey)
    /\ now' <= ObjectClockLimit
    /\ objects' = [objects EXCEPT ![id] = r.survey]
    /\ UNCHANGED <<aside, program, surveys, outbox>>

\* submit_for_review logging the submission without setting the status
lm_submit_for_review_keeping_status(survey, ts) ==
    Return(add_audit_log(survey, "Survey submitted for CoE review.", ts))

\* LeadManager.submit_for_review: the body
lm_submit_for_review(survey, ts) ==
    Return(add_audit_log([survey EXCEPT !.status = SURVEY_STATUS_REVIEW],
                         "Survey submitted for CoE review.", ts))

LeadManager_submit_for_review(id) ==
    /\ id \in DOMAIN objects
    /\ ObjectStep("submitForReview", id, lm_submit_for_review(objects[id], now))

\* review_survey taking every decision other than an approval for a rejection
coe_review_survey_else_rejected(survey, decision, ts) ==
    IF decision = SURVEY_STATUS_APPROVED
    THEN Return(add_audit_log([survey EXCEPT !.status = SURVEY_STATUS_APPROVED],
                              "Survey approved by CoE.", ts))
    ELSE Return(add_audit_log([survey EXCEPT !.status = SURVEY_STATUS_REJECTED],
                              "Survey rejected by CoE.", ts))

\* CenterOfExcellence.review_survey: the body
coe_review_survey(survey, decision, ts) ==
    IF decision = SURVEY_STATUS_APPROVED
    THEN Return(add_audit_log([survey EXCEPT !.status = SURVEY_STATUS_APPROVED],
                              "Survey approved by CoE.", ts))
    ELSE IF decision = SURVEY_STATUS_REJECTED
    THEN Return(add_audit_log([survey EXCEPT !.status = SURVEY_STATUS_REJECTED],
                              "Survey rejected by CoE.", ts))
    ELSE Raise(survey, "RuntimeError",
               "Error reviewing survey: Invalid decision provided.")

CenterOfExcellence_review_survey(id, decision) ==
    /\ id \in DOMAIN objects
    /\ ObjectStep("review", id, coe_review_survey(objects[id], decision, now))

\* CenterOfExcellence.notify_customer: the body ("Simulated notification")
coe_notify_customer(survey, ts) ==
    Return(add_audit_log(survey, NotificationLog(survey.customer_id), ts))

CenterOfExcellence_notify_customer(id) ==
    /\ id \in DOMAIN objects
    /\ ObjectStep("notify", id, coe_notify_customer(objects[id], now))

\* publish_survey without its check of the status
coe_publish_survey_unchecked(survey, ts) ==
    coe_notify_customer(
        add_audit_log([survey EXCEPT !.status = SURVEY_STATUS_PUBLISHED],
                      "Survey published by CoE.", ts),
        ts + 1)

\* CenterOfExcellence.publish_survey: the body
coe_publish_survey(survey, ts) ==
    IF survey.status # SURVEY_STATUS_APPROVED
    THEN Raise(survey, "RuntimeError",
               "Error publishing survey: Survey must be approved before publishing.")
    ELSE coe_notify_customer(
             add_audit_log([survey EXCEPT !.status = SURVEY_STATUS_PUBLISHED],
                           "Survey published by CoE.", ts),
             ts + 1)

CenterOfExcellence_publish_survey(id) ==
    /\ id \in DOMAIN objects
    /\ ObjectStep("publish", id, coe_publish_survey(objects[id], now))

\* the for loop of Customer.fill_survey over responses.items(): answers to
\* known questions are stored one by one, the first unknown question raises
RECURSIVE fill_loop(_, _)
fill_loop(survey, items) ==
    IF items = << >> THEN Return(survey)
    ELSE LET question == Head(items).q
             answer == Head(items).a
         IN  IF InList(question, survey.questions)
             THEN fill_loop([survey EXCEPT !.responses =
                                 DictSet(@, question, answer)], Tail(items))
             ELSE Raise(survey, "RuntimeError", InvalidQuestion(question))

\* Customer.fill_survey: the body
fill_survey(survey, responses, ts) ==
    LET r == fill_loop(survey, responses)
    IN  IF r.raised # "" THEN r
        ELSE Return(add_audit_log(r.survey,
                                  "Customer filled in survey responses.", ts))

Customer_fill_survey(id, responses) ==
    /\ id \in DOMAIN objects
    /\ ObjectStep("fill", id, fill_survey(objects[id], responses, now))

\* submit_survey logging the submission without setting the status
submit_survey_keeping_status(survey, ts) ==
    Return(add_audit_log(survey, "Customer submitted completed survey.", ts))

\* Customer.submit_survey: the body
submit_survey(survey, ts) ==
    Return(add_audit_log([survey EXCEPT !.status = SURVEY_STATUS_COMPLETED],
                         "Customer submitted completed survey.", ts))

Customer_submit_survey(id) ==
    /\ id \in DOMAIN objects
    /\ ObjectStep("submitFinal", id, submit_survey(objects[id], now))

\* export_survey_report(surveys): the rows it writes to EXPORT_FILE_PATH, the
\* header and one row per Survey object of the list
ReportHeader == <<"Survey ID", "Title", "Status", "Customer ID">>
ReportRow(id, survey) == <<id, survey.title, survey.status, survey.customer_id>>
export_survey_report(list) ==
    <<ReportHeader>> \o [i \in 1..Len(list) |-> ReportRow(list[i], objects[list[i]])]

\* the lists of Survey objects a caller may pass
ReportLists == {<< >>} \cup {<<id>> : id \in DOMAIN objects}

Reporting_export_survey_report(list) ==
    /\ program = RoleClasses
    /\ last' = [NoCall EXCEPT !.op = "export",
                              !.output = export_survey_report(list)]
    /\ UNCHANGED <<aside, program, objects, surveys, outbox, now>>

(***************************************************************************)
(* customer_survey_program.py                                              *)
(***************************************************************************)
\* Survey.__init__ starting from STATUS_APPROVED
ManagedSurvey_approved(title, questions, start_date, end_date, customer_id) ==
    [title |-> title, questions |-> questions, start_date |-> start_date,
     end_date |-> end_date, customer_id |-> customer_id,
     status |-> STATUS_APPROVED, responses |-> EmptyDict,
     audit_trail |-> << >>]

\* Survey.__init__
ManagedSurvey(title, questions, start_date, end_date, customer_id) ==
    [title |-> title, questions |-> questions, start_date |-> start_date,
     end_date |-> end_date, customer_id |-> customer_id,
     status |-> STATUS_PENDING_REVIEW, responses |-> EmptyDict,
     audit_trail |-> << >>]

\* SurveyManager._log_action, on the survey the id names
log_action(survey, role, action, ts) ==
    [survey EXCEPT !.audit_trail =
        Append(@, [role |-> role, action |-> action, timestamp |-> ts])]

\* f"Review decision: {decision}"
ReviewAction(decision) ==
    CASE decision = "approve" -> "Review decision: approve"
      [] decision = "Reject" -> "Review decision: Reject"
      [] decision = "request_changes" -> "Review decision: request_changes"
      [] decision = "escalate" -> "Review decision: escalate"
      [] OTHER -> "Review decision: ?"

\* NOTIFICATION_EMAIL_TEMPLATE.format(survey_id=survey_id)
NotificationEmail(survey_id) ==
    [template |-> "Survey {survey_id} has been published.",
     survey_id |-> survey_id]

\* the line _send_notification_email prints when sending raised
NotificationError(survey_id) ==
    [template |-> "Error sending notification email: {e}",
     survey_id |-> survey_id]

\* the step of a SurveyManager method on survey_id: "Survey not found." when
\* the id is not in the store, else the result r of its body, and the emails
\* it sent
NotFound == Raise(0, "ValueError", "Survey not found.")

\* the step of a method that reports success for an id it did not find
ManagerStep_found_or_not(op, survey_id, r, emails) ==
    /\ program = Manager
    /\ IF survey_id \notin DOMAIN surveys
       THEN /\ last' = Outcome(op, survey_id, Return(0))
            /\ UNCHANGED <<surveys, now, outbox>>
       ELSE /\ last' = Outcome(op, survey_id, r)
            /\ now' = now + Written(surveys[survey_id], r.survey)
            /\ outbox' = outbox \o emails
            /\ surveys' = [surveys EXCEPT ![survey_id] = r.survey]
    /\ now' <= ClockLimit
    /\ UNCHANGED <<aside, program, objects>>

ManagerStep(op, survey_id, r, emails) ==
    /\ program = Manager
    /\ IF survey_id \notin DOMAIN surveys
       THEN /\ last' = Outcome(op, survey_id, NotFound)
            /\ UNCHANGED <<surveys, now, outbox>>
       ELSE /\ last' = Outcome(op, survey_id, r)
            /\ now' = now + Written(surveys[survey_id], r.survey)
            /\ outbox' = outbox \o emails
            /\ surveys' = [surveys EXCEPT ![survey_id] = r.survey]
    /\ now' <= ClockLimit
    /\ UNCHANGED <<aside, program, objects>>

\* create_survey starting a new store with the survey it creates
SurveyManager_create_survey_alone(a) ==
    /\ program = Manager
    /\ DOMAIN surveys # SurveyIds
    /\ LET id == generate_unique_id(DOMAIN surveys, SurveyIds)
           survey == log_action(
                         ManagedSurvey(Title, a.questions, a.start_date,
                                       a.end_date, a.customer_id),
                         ROLE_LEAD_MANAGER, "Survey Created", now)
       IN  /\ surveys' = [s \in {id} |-> survey]
           /\ last' = Outcome("create", id, Return(survey))
    /\ now' = now + 1
    /\ now' <= ClockLimit
    /\ UNCHANGED <<aside, program, objects, outbox>>

\* SurveyManager.create_survey
SurveyManager_create_survey(a) ==
    /\ program = Manager
    /\ DOMAIN surveys # SurveyIds
    /\ LET id == generate_unique_id(DOMAIN surveys, SurveyIds)
           survey == log_action(
                         ManagedSurvey(Title, a.questions, a.start_date,
                                       a.end_date, a.customer_id),
                         ROLE_LEAD_MANAGER, "Survey Created", now)
       IN  /\ surveys' = [s \in DOMAIN surveys \cup {id} |->
                             IF s = id THEN survey ELSE surveys[s]]
           /\ last' = Outcome("create", id, Return(survey))
    /\ now' = now + 1
    /\ now' <= ClockLimit
    /\ UNCHANGED <<aside, program, objects, outbox>>

\* review_survey without its check of the role
sm_review_survey_any_role(survey, role, decision, ts) ==
    IF Lower(decision) = "approve"
    THEN Return(log_action([survey EXCEPT !.status = STATUS_APPROVED],
                           role, ReviewAction(decision), ts))
    ELSE IF Lower(decision) = "reject"
    THEN Return(log_action([survey EXCEPT !.status = STATUS_REJECTED],
                           role, ReviewAction(decision), ts))
    ELSE IF Lower(decision) = "request_changes"
    THEN Return(log_action([survey EXCEPT !.status = STATUS_PENDING_REVIEW],
                           role, ReviewAction(decision), ts))
    ELSE Raise(survey, "ValueError", "Invalid decision.")

\* SurveyManager.review_survey: the body once the survey is found
sm_review_survey(survey, role, decision, ts) ==
    IF role # ROLE_COE
    THEN Raise(survey, "PermissionError", "Unauthorized role for review.")
    ELSE IF Lower(decision) = "approve"
    THEN Return(log_action([survey EXCEPT !.status = STATUS_APPROVED],
                           role, ReviewAction(decision), ts))
    ELSE IF Lower(decision) = "reject"
    THEN Return(log_action([survey EXCEPT !.status = STATUS_REJECTED],
                           role, ReviewAction(decision), ts))
    ELSE IF Lower(decision) = "request_changes"
    THEN Return(log_action([survey EXCEPT !.status = STATUS_PENDING_REVIEW],
                           role, ReviewAction(decision), ts))
    ELSE Raise(survey, "ValueError", "Invalid decision.")

SurveyManager_review_survey(survey_id, role, decision) ==
    ManagerStep("review", survey_id,
                IF survey_id \in DOMAIN surveys
                THEN sm_review_survey(surveys[survey_id], role, decision, now)
                ELSE NotFound,
                << >>)

\* SurveyManager.publish_survey: the body once the survey is found
sm_publish_survey(survey, ts) ==
    IF survey.status # STATUS_APPROVED
    THEN Raise(survey, "ValueError", "Survey is not approved for publish.")
    ELSE Return(log_action([survey EXCEPT !.status = STATUS_PUBLISHED],
                           ROLE_COE, "Survey Published", ts))

\* _send_notification_email called whatever publish_survey's checks said
send_notification_email_always(survey_id, r, delivered) ==
    IF delivered THEN <<NotificationEmail(survey_id)>>
    ELSE <<NotificationError(survey_id)>>

\* SurveyManager._send_notification_email, called when publish_survey has set
\* the status and before it logs: what it prints, the email when sending
\* went through (delivered) and else the error it caught
send_notification_email(survey_id, r, delivered) ==
    IF r.raised # "" THEN << >>
    ELSE IF delivered THEN <<NotificationEmail(survey_id)>>
    ELSE <<NotificationError(survey_id)>>

\* SurveyManager.publish_survey(survey_id), with the environment's outcome of
\* sending the email
SurveyManager_publish_survey(survey_id, delivered) ==
    LET r == IF survey_id \in DOMAIN surveys
             THEN sm_publish_survey(surveys[survey_id], now)
             ELSE NotFound
    IN  ManagerStep("publish", survey_id, r,
                    send_notification_email(survey_id, r, delivered))

\* submit_response without its check of the customer
sm_submit_response_any_customer(survey, customer_id, responses, is_final, ts) ==
    Return(log_action(
               [survey EXCEPT
                   !.responses = DictSet(@, customer_id, DictOf(responses)),
                   !.status = IF is_final THEN STATUS_COMPLETED
                              ELSE STATUS_IN_PROGRESS],
               ROLE_CUSTOMER,
               IF is_final THEN "Final Response Submitted" ELSE "Response Saved",
               ts))

\* SurveyManager.submit_response: the body once the survey is found
sm_submit_response(survey, customer_id, responses, is_final, ts) ==
    IF survey.customer_id # customer_id
    THEN Raise(survey, "PermissionError", "Unauthorized customer.")
    ELSE Return(log_action(
                    [survey EXCEPT
                        !.responses = DictSet(@, customer_id, DictOf(responses)),
                        !.status = IF is_final THEN STATUS_COMPLETED
                                   ELSE STATUS_IN_PROGRESS],
                    ROLE_CUSTOMER,
                    IF is_final THEN "Final Response Submitted"
                    ELSE "Response Saved",
                    ts))

SurveyManager_submit_response(survey_id, customer_id, responses, is_final) ==
    ManagerStep(IF is_final THEN "submitFinal" ELSE "fill", survey_id,
                IF survey_id \in DOMAIN surveys
                THEN sm_submit_response(surveys[survey_id], customer_id,
                                        responses, is_final, now)
                ELSE NotFound,
                << >>)

\* a reference to an attribute of a stored survey, and the object it names
Ref(survey_id, attribute) == [survey_id |-> survey_id, attribute |-> attribute]
Deref(store, ref) == store[ref.survey_id][ref.attribute]

\* export_survey_data handing out the responses and clearing them
sm_export_survey_data_clearing(survey_id, survey) ==
    ReturnValue([survey EXCEPT !.responses = EmptyDict],
                [survey_id |-> survey_id, title |-> survey.title,
                 status |-> survey.status,
                 responses |-> Ref(survey_id, "responses"),
                 audit_trail |-> Ref(survey_id, "audit_trail")])

\* SurveyManager.export_survey_data: the body once the survey is found; the
\* dict holds the survey's own responses dict and audit_trail list
sm_export_survey_data(survey_id, survey) ==
    ReturnValue(survey,
                [survey_id |-> survey_id, title |-> survey.title,
                 status |-> survey.status,
                 responses |-> Ref(survey_id, "responses"),
                 audit_trail |-> Ref(survey_id, "audit_trail")])

SurveyManager_export_survey_data(survey_id) ==
    ManagerStep("export", survey_id,
                IF survey_id \in DOMAIN surveys
                THEN sm_export_survey_data(survey_id, surveys[survey_id])
                ELSE NotFound,
                << >>)

\* the ids a caller may pass: those of the store and one that was never issued
CallIds == DOMAIN surveys \cup {0}

Next ==
    \/ \E a \in CreateArgs : LeadManager_create_survey(a)
    \/ \E id \in ObjectIds : LeadManager_submit_for_review(id)
    \/ \E id \in ObjectIds, decision \in RoleDecisions :
          CenterOfExcellence_review_survey(id, decision)
    \/ \E id \in ObjectIds : CenterOfExcellence_notify_customer(id)
    \/ \E id \in ObjectIds : CenterOfExcellence_publish_survey(id)
    \/ \E id \in ObjectIds, responses \in ResponseDicts :
          Customer_fill_survey(id, responses)
    \/ \E id \in ObjectIds : Customer_submit_survey(id)
    \/ \E list \in ReportLists : Reporting_export_survey_report(list)
    \/ \E a \in CreateArgs : SurveyManager_create_survey(a)
    \/ \E survey_id \in CallIds, role \in Roles, decision \in Decisions :
          SurveyManager_review_survey(survey_id, role, decision)
    \/ \E survey_id \in CallIds, delivered \in BOOLEAN :
          SurveyManager_publish_survey(survey_id, delivered)
    \/ \E survey_id \in CallIds, customer_id \in CustomerIds,
          responses \in ResponseDicts, is_final \in BOOLEAN :
          SurveyManager_submit_response(survey_id, customer_id, responses,
                                        is_final)
    \/ \E survey_id \in CallIds : SurveyManager_export_survey_data(survey_id)

Spec == Init /\ [][Next]_vars

(***************************************************************************)
(* A caller of export_survey_data who keeps the dict it was given.  The    *)
(* dict holds the survey's own responses dict and audit_trail list, so the *)
(* caller sees through it whatever later calls do to them; `seen` is what  *)
(* the caller read in the dict when it got it.                             *)
(***************************************************************************)
Caller_keeps_snapshot ==
    /\ program = Manager
    /\ last.op = "export" /\ last.ok
    /\ snapshot = << >>
    /\ snapshot' =
          <<[dict |-> last.output[1],
             seen |-> [responses |-> Deref(surveys, last.output[1].responses),
                       audit_trail |->
                           Deref(surveys, last.output[1].audit_trail)]]>>
    /\ UNCHANGED <<program, objects, surveys, outbox, now, last, scenario,
                   threads, users, requests>>

NextSnapshot == Next \/ Caller_keeps_snapshot

SpecSnapshot == Init /\ [][NextSnapshot]_vars

(***************************************************************************)
(* The example flow of each program (its __main__), with the inputs of the *)
(* scenario: the calls in their order, and between them any calls that the *)
(* program refuses or that only read.  The place in the flow is told by    *)
(* the records on the survey's audit trail.                                *)
(***************************************************************************)
InitScenario ==
    /\ program \in Programs
    /\ objects = [s \in {} |-> 0]
    /\ surveys = [s \in {} |-> 0]
    /\ outbox = << >>
    /\ now = 0
    /\ last = NoCall
    /\ snapshot = << >>
    /\ scenario = TRUE
    /\ threads = << >>
    /\ users = << >>
    /\ requests = << >>

ScenarioSurvey == CreateArg(<<"Q1", "Q2">>, 1, 2, "C1")
FirstAnswers == <<Item("Q1", "yes")>>
SecondAnswers == <<Item("Q1", "no"), Item("Q2", "maybe")>>

\* the audit records on the survey of the flow, 0 before it is created
ScenarioRecords ==
    IF program = RoleClasses
    THEN IF 1 \in DOMAIN objects THEN Len(objects[1].audit_trail) ELSE 0
    ELSE IF 1 \in DOMAIN surveys THEN Len(surveys[1].audit_trail) ELSE 0

Main_CustomerSurveyProgram ==
    \/ ScenarioRecords = 0 /\ LeadManager_create_survey(ScenarioSurvey)
    \/ ScenarioRecords = 1 /\ LeadManager_submit_for_review(1)
    \/ /\ ScenarioRecords = 2
       /\ CenterOfExcellence_review_survey(1, SURVEY_STATUS_APPROVED)
    \/ ScenarioRecords = 3 /\ CenterOfExcellence_publish_survey(1)
    \/ ScenarioRecords = 5 /\ Customer_fill_survey(1, FirstAnswers)
    \/ ScenarioRecords = 6 /\ Customer_fill_survey(1, SecondAnswers)
    \/ ScenarioRecords = 7 /\ Customer_submit_survey(1)

Main_customer_survey_program ==
    \/ ScenarioRecords = 0 /\ SurveyManager_create_survey(ScenarioSurvey)
    \/ /\ ScenarioRecords = 1
       /\ SurveyManager_review_survey(1, ROLE_COE, "approve")
    \/ /\ ScenarioRecords = 2
       /\ \E delivered \in BOOLEAN : SurveyManager_publish_survey(1, delivered)
    \/ /\ ScenarioRecords = 3
       /\ SurveyManager_submit_response(1, "C1", FirstAnswers, FALSE)
    \/ /\ ScenarioRecords = 4
       /\ SurveyManager_submit_response(1, "C1", SecondAnswers, FALSE)
    \/ /\ ScenarioRecords = 5
       /\ SurveyManager_submit_response(1, "C1", SecondAnswers, TRUE)

\* calls that are refused or only read: a review with a decision or a role
\* the program does not accept, a response submission by another customer,
\* an export
RefusedOrReadOnly ==
    \/ \E id \in ObjectIds,
          decision \in RoleDecisions
                          \ {SURVEY_STATUS_APPROVED, SURVEY_STATUS_REJECTED} :
          CenterOfExcellence_review_survey(id, decision)
    \/ \E list \in ReportLists : Reporting_export_survey_report(list)
    \/ \E survey_id \in CallIds, role \in Roles \ {ROLE_COE},
          decision \in Decisions :
          SurveyManager_review_survey(survey_id, role, decision)
    \/ \E survey_id \in CallIds, responses \in ResponseDicts,
          is_final \in BOOLEAN :
          SurveyManager_submit_response(survey_id, "C2", responses, is_final)
    \/ \E survey_id \in CallIds : SurveyManager_export_survey_data(survey_id)

NextScenario ==
    \/ Main_CustomerSurveyProgram
    \/ Main_customer_survey_program
    \/ RefusedOrReadOnly

SpecScenario == InitScenario /\ [][NextScenario]_vars

(***************************************************************************)
(* Two threads of one caller, each making one call of the SurveyManager on *)
(* the same survey.  The methods take no lock, so the threads interleave   *)
(* between the statements that read or write the survey: the check of the  *)
(* status, the assignment of the responses, the assignment of the status,  *)
(* the notification, the append to the audit trail.  A check and the       *)
(* statements before the first write are one step.                         *)
(***************************************************************************)
Threads == {1, 2}

\* the calls a thread may make on the survey
Call(op, role, decision, customer_id, responses, is_final) ==
    [op |-> op, role |-> role, decision |-> decision,
     customer_id |-> customer_id, responses |-> responses,
     is_final |-> is_final]
ThreadCalls ==
    { Call("publish", "", "", "", << >>, FALSE),
      Call("review", ROLE_COE, "Reject", "", << >>, FALSE),
      Call("submit", "", "", "C1", <<Item("Q1", "yes")>>, FALSE),
      Call("submit", "", "", "C1",
           <<Item("Q1", "no"), Item("Q2", "maybe")>>, TRUE) }

\* the survey the threads share: created for C1 and approved
SharedSurvey ==
    sm_review_survey(
        log_action(ManagedSurvey(Title, <<"Q1", "Q2">>, 1, 2, "C1"),
                   ROLE_LEAD_MANAGER, "Survey Created", 0),
        ROLE_COE, "approve", 1).survey

InitThreads ==
    /\ program = Manager
    /\ objects = [s \in {} |-> 0]
    /\ surveys = [s \in {1} |-> SharedSurvey]
    /\ outbox = << >>
    /\ now = Len(SharedSurvey.audit_trail)
    /\ last = NoCall
    /\ snapshot = << >>
    /\ scenario = FALSE
    /\ users = << >>
    /\ requests = << >>
    /\ threads \in [Threads -> {[call |-> c, pc |-> "start", returned |-> ""] :
                                   c \in ThreadCalls}]

\* thread t moves to pc, its call returning True or False when it is done
Goto(t, pc, returned) ==
    threads' = [threads EXCEPT ![t].pc = pc, ![t].returned = returned]

\* publish_survey, statement by statement
Thread_publish_survey(t) ==
    /\ threads[t].call.op = "publish"
    /\ UNCHANGED <<program, objects, last, snapshot, scenario, users,
                   requests>>
    /\ \/ /\ threads[t].pc = "start"
          /\ IF surveys[1].status # STATUS_APPROVED
             THEN Goto(t, "done", "False")
             ELSE Goto(t, "set_status", "")
          /\ UNCHANGED <<surveys, outbox, now>>
       \/ /\ threads[t].pc = "set_status"
          /\ surveys' = [surveys EXCEPT ![1].status = STATUS_PUBLISHED]
          /\ Goto(t, "notify", "")
          /\ UNCHANGED <<outbox, now>>
       \/ /\ threads[t].pc = "notify"
          /\ \E delivered \in BOOLEAN :
                outbox' = outbox
                            \o send_notification_email(1, Return(surveys[1]),
                                                       delivered)
          /\ Goto(t, "log", "")
          /\ UNCHANGED <<surveys, now>>
       \/ /\ threads[t].pc = "log"
          /\ surveys' = [surveys EXCEPT
                            ![1] = log_action(@, ROLE_COE, "Survey Published",
                                              now)]
          /\ now' = now + 1
          /\ Goto(t, "done", "True")
          /\ UNCHANGED outbox

\* review_survey, statement by statement
Thread_review_survey(t) ==
    /\ threads[t].call.op = "review"
    /\ UNCHANGED <<program, objects, last, snapshot, scenario, users,
                   requests>>
    /\ LET c == threads[t].call
       IN  \/ /\ threads[t].pc = "start"
              /\ IF c.role # ROLE_COE
                    \/ Lower(c.decision)
                          \notin {"approve", "reject", "request_changes"}
                 THEN Goto(t, "done", "False") /\ UNCHANGED surveys
                 ELSE /\ surveys' =
                            [surveys EXCEPT ![1].status =
                                CASE Lower(c.decision) = "approve"
                                        -> STATUS_APPROVED
                                  [] Lower(c.decision) = "reject"
                                        -> STATUS_REJECTED
                                  [] OTHER -> STATUS_PENDING_REVIEW]
                      /\ Goto(t, "log", "")
              /\ UNCHANGED <<outbox, now>>
           \/ /\ threads[t].pc = "log"
              /\ surveys' = [surveys EXCEPT
                                ![1] = log_action(@, c.role,
                                                  ReviewAction(c.decision),
                                                  now)]
              /\ now' = now + 1
              /\ Goto(t, "done", "True")
              /\ UNCHANGED outbox

\* submit_response, statement by statement
Thread_submit_response(t) ==
    /\ threads[t].call.op = "submit"
    /\ UNCHANGED <<program, objects, last, snapshot, scenario, users,
                   requests>>
    /\ LET c == threads[t].call
       IN  \/ /\ threads[t].pc = "start"
              /\ IF surveys[1].customer_id # c.customer_id
                 THEN Goto(t, "done", "False") /\ UNCHANGED surveys
                 ELSE /\ surveys' =
                            [surveys EXCEPT ![1].responses =
                                DictSet(@, c.customer_id, DictOf(c.responses))]
                      /\ Goto(t, "set_status", "")
              /\ UNCHANGED <<outbox, now>>
           \/ /\ threads[t].pc = "set_status"
              /\ surveys' = [surveys EXCEPT ![1].status =
                                IF c.is_final THEN STATUS_COMPLETED
                                ELSE STATUS_IN_PROGRESS]
              /\ Goto(t, "log", "")
              /\ UNCHANGED <<outbox, now>>
           \/ /\ threads[t].pc = "log"
              /\ surveys' = [surveys EXCEPT
                                ![1] = log_action(
                                           @, ROLE_CUSTOMER,
                                           IF c.is_final
                                           THEN "Final Response Submitted"
                                           ELSE "Response Saved",
                                           now)]
              /\ now' = now + 1
              /\ Goto(t, "done", "True")
              /\ UNCHANGED outbox

NextThreads ==
    \/ \E t \in Threads : Thread_publish_survey(t)
    \/ \E t \in Threads : Thread_review_survey(t)
    \/ \E t \in Threads : Thread_submit_response(t)

SpecThreads == InitThreads /\ [][NextThreads]_vars

(***************************************************************************)
(* backend/app.py: the /register route over the users collection.  Flask   *)
(* handles requests concurrently; find_one and insert_one are each one     *)
(* step of the database, and the route takes no lock between them.         *)
(***************************************************************************)
Backend == "backend.app"
RegisterRequests == 1..MaxRequests

\* re.match against EMAIL_REGEX, PHONE_REGEX and PASSWORD_REGEX, on the
\* strings the requests carry
validate_email(s) == s \in {"ann@example.com"}
validate_phone(s) == s \in {"555-555-5555"}
validate_password(s) == s \in {"Password@123"}
validate_security_question(s) == s # ""

\* the JSON bodies sent: two well-formed registrations, and one for each
\* check of the route to refuse
RegisterBody(email_or_phone, password, confirm_password, security_question) ==
    [email_or_phone |-> email_or_phone, password |-> password,
     confirm_password |-> confirm_password,
     security_question |-> security_question]
RegisterBodies ==
    { RegisterBody("ann@example.com", "Password@123", "Password@123", "Pet?"),
      RegisterBody("555-555-5555", "Password@123", "Password@123", "Pet?"),
      RegisterBody("Ann@Example", "Password@123", "Password@123", "Pet?"),
      RegisterBody("ann@example.com", "password", "password", "Pet?"),
      RegisterBody("ann@example.com", "Password@123", "Password@124", "Pet?"),
      RegisterBody("ann@example.com", "Password@123", "Password@123", "") }

\* jsonify(...), status
Response(status, text) == [status |-> status, text |-> text]
NoResponse == Response(0, "")

InitRegister ==
    /\ program = Backend
    /\ objects = [s \in {} |-> 0]
    /\ surveys = [s \in {} |-> 0]
    /\ outbox = << >>
    /\ now = 0
    /\ last = NoCall
    /\ snapshot = << >>
    /\ scenario = FALSE
    /\ threads = << >>
    /\ users = << >>
    /\ requests \in [RegisterRequests ->
                        {[body |-> b, pc |-> "received", response |-> NoResponse]
                            : b \in RegisterBodies}]

\* the response of the route's checks of the body, NoResponse when they pass
register_validate(data) ==
    IF ~(validate_email(data.email_or_phone)
            \/ validate_phone(data.email_or_phone))
    THEN Response(400, "Invalid email address or phone number")
    ELSE IF ~validate_password(data.password)
    THEN Response(400, "Password must be at least 8 characters long and contain at least one uppercase letter, one lowercase letter, one number, and one special character")
    ELSE IF data.password # data.confirm_password
    THEN Response(400, "Passwords do not match")
    ELSE IF ~validate_security_question(data.security_question)
    THEN Response(400, "Security question cannot be empty")
    ELSE NoResponse

\* mongo.db.users.find_one({"email_or_phone": email_or_phone}) found a user
find_one(collection, email_or_phone) ==
    \E i \in 1..Len(collection) : collection[i].email_or_phone = email_or_phone

\* register, from the request to the answer of find_one
Register_find_one(r) ==
    /\ requests[r].pc = "received"
    /\ requests' =
          [requests EXCEPT ![r] =
              IF register_validate(requests[r].body) # NoResponse
              THEN [@ EXCEPT !.pc = "done",
                             !.response =
                                 register_validate(requests[r].body)]
              ELSE IF find_one(users, requests[r].body.email_or_phone)
              THEN [@ EXCEPT !.pc = "done",
                             !.response = Response(409, "User already exists")]
              ELSE [@ EXCEPT !.pc = "insert"]]
    /\ UNCHANGED <<users, program, objects, surveys, outbox, now, last,
                   snapshot, scenario, threads>>

\* register, from generate_password_hash and insert_one to the response
Register_insert_one(r) ==
    /\ requests[r].pc = "insert"
    /\ users' = Append(users,
                       [email_or_phone |-> requests[r].body.email_or_phone,
                        password |-> [hash_of |-> requests[r].body.password,
                                      salt |-> r],
                        security_question |->
                            requests[r].body.security_question])
    /\ requests' =
          [requests EXCEPT
              ![r].pc = "done",
              ![r].response = Response(201, "User registered successfully")]
    /\ UNCHANGED <<program, objects, surveys, outbox, now, last, snapshot,
                   scenario, threads>>

NextRegister ==
    \/ \E r \in RegisterRequests : Register_find_one(r)
    \/ \E r \in RegisterRequests : Register_insert_one(r)

SpecRegister == InitRegister /\ [][NextRegister]_vars

(***************************************************************************)
(* Vocabulary of the properties.                                           *)
(***************************************************************************)
\* the surveys of the running program, before and after a step
Store == IF program = RoleClasses THEN objects ELSE surveys
StoreNext == IF program = RoleClasses THEN objects' ELSE surveys'

\* the statuses of the lifecycle, in either program's words
IsDraft(st) == st = SURVEY_STATUS_DRAFT
IsUnderReview(st) == st \in {SURVEY_STATUS_REVIEW, STATUS_PENDING_REVIEW}
IsApproved(st) == st \in {SURVEY_STATUS_APPROVED, STATUS_APPROVED}
IsRejected(st) == st \in {SURVEY_STATUS_REJECTED, STATUS_REJECTED}
IsPublished(st) == st \in {SURVEY_STATUS_PUBLISHED, STATUS_PUBLISHED}
IsInProgress(st) == st = STATUS_IN_PROGRESS
IsCompleted(st) == st \in {SURVEY_STATUS_COMPLETED, STATUS_COMPLETED}

\* the answers a survey holds, question by question: the responses of a
\* Survey object; the entry of the owning customer in a managed survey
Answers(survey) ==
    IF program = RoleClasses THEN survey.responses
    ELSE IF survey.customer_id \in DOMAIN survey.responses
         THEN survey.responses[survey.customer_id]
         ELSE EmptyDict

Keys(items) == {items[i].q : i \in 1..Len(items)}
Questions(survey) == {survey.questions[i] : i \in 1..Len(survey.questions)}

\* a step that is a non-final response submission with these answers, by the
\* owner where the call names a customer
FillStep(id, responses) ==
    IF program = RoleClasses THEN Customer_fill_survey(id, responses)
    ELSE SurveyManager_submit_response(id, surveys[id].customer_id, responses,
                                       FALSE)

\* the edges of the transition table
TableEdge(from, to, op) ==
    \/ IsDraft(from) /\ IsUnderReview(to) /\ op = "submitForReview"
    \/ /\ IsUnderReview(from) /\ op = "review"
       /\ IsApproved(to) \/ IsRejected(to) \/ IsDraft(to) \/ IsUnderReview(to)
    \/ IsApproved(from) /\ IsPublished(to) /\ op = "publish"
    \/ IsPublished(from) /\ IsInProgress(to) /\ op = "fill"
    \/ /\ IsPublished(from) \/ IsInProgress(from)
       /\ IsCompleted(to) /\ op = "submitFinal"

MutatingOps ==
    {"create", "submitForReview", "review", "publish", "fill", "submitFinal"}

(***************************************************************************)
(* Properties.                                                             *)
(***************************************************************************)
\* C1: every change of a survey's status is an edge of the transition table,
\* made by the operation the table names for it.
C1_StatusFollowsTable ==
    [][\A s \in DOMAIN Store :
          StoreNext[s].status # Store[s].status
          => TableEdge(Store[s].status, StoreNext[s].status, last'.op)]_vars

\* C2: in a step of a mutating call, the audit trail of the survey the call
\* addresses grows by exactly one record when the call succeeds, no trail
\* grows when it fails, no survey's status or responses change without a
\* record appended to its trail, and no record is appended but by a
\* successful call.
C2_OneRecordPerMutation ==
    [][last'.op \in MutatingOps =>
          \A s \in DOMAIN StoreNext :
             LET before == IF s \in DOMAIN Store
                           THEN Len(Store[s].audit_trail) ELSE 0
                 grown == Len(StoreNext[s].audit_trail) - before
                 changed == \/ s \notin DOMAIN Store
                            \/ StoreNext[s].status # Store[s].status
                            \/ StoreNext[s].responses # Store[s].responses
             IN  /\ (last'.ok /\ last'.sid = s) => grown = 1
                 /\ ~last'.ok => grown = 0
                 /\ changed => grown = 1
                 /\ grown > 0 => last'.ok /\ last'.sid = s]_vars

\* C3: publish of a survey that is not Approved fails, leaves every survey as
\* it was and sends no notification; publish of an Approved survey succeeds
\* and sets its status to Published.
C3_PublishOnlyApproved ==
    [][last'.op = "publish" =>
          LET s == last'.sid
          IN  IF s \in DOMAIN Store /\ IsApproved(Store[s].status)
              THEN last'.ok /\ IsPublished(StoreNext[s].status)
              ELSE ~last'.ok /\ StoreNext = Store /\ outbox' = outbox]_vars

\* C3 witness: a survey that a publish made Published, on which a further
\* publish has just failed.
C3_Witness ==
    /\ last.op = "publish" /\ ~last.ok
    /\ last.sid \in DOMAIN Store
    /\ IsPublished(Store[last.sid].status)

\* C4: a response submission whose answers name a question the survey does not
\* have fails, and the survey's answers are as before the call.
C4_UnknownQuestionRejected ==
    [][\A id \in DOMAIN Store, responses \in ResponseDicts :
          (~(Keys(responses) \subseteq Questions(Store[id]))
              /\ FillStep(id, responses))
          => ~last'.ok /\ Answers(StoreNext[id]) = Answers(Store[id])]_vars

C7_AuditTrailAppendOnly ==
    [][\A s \in DOMAIN Store :
          /\ s \in DOMAIN StoreNext
          /\ IsPrefix(Store[s].audit_trail, StoreNext[s].audit_trail)]_vars

\* C7 witness: a survey whose trail holds three records, after a call that
\* failed.
C7_Witness ==
    /\ ~last.ok /\ last.sid \in DOMAIN Store
    /\ Len(Store[last.sid].audit_trail) >= 3

\* C8: the keys of every survey's responses are questions of that survey.
C8_ResponseKeysAreQuestions ==
    \A s \in DOMAIN Store : DOMAIN Store[s].responses \subseteq Questions(Store[s])

\* the dict d after d.update(e)
Override(d, e) ==
    [k \in DOMAIN d \cup DOMAIN e |-> IF k \in DOMAIN e THEN e[k] ELSE d[k]]

\* C9: a successful submission of answers to questions of the survey, on a
\* survey holding the answers of earlier such submissions, leaves the survey's
\* answers equal to the earlier answers overridden by the submitted ones, one
\* answer per question.
C9_LaterAnswersOverride ==
    [][\A id \in DOMAIN Store, responses \in ResponseDicts :
          (/\ Keys(responses) \subseteq Questions(Store[id])
           /\ DOMAIN Answers(Store[id]) \subseteq Questions(Store[id])
           /\ FillStep(id, responses) /\ last'.ok)
          => Answers(StoreNext[id])
                = Override(Answers(Store[id]), DictOf(responses))]_vars

\* C10: a response submission by the owner on a survey that is neither
\* Published nor In Progress fails and leaves the surveys as they were.
C10_FillNeedsPublished ==
    [][\A id \in DOMAIN Store, responses \in ResponseDicts :
          (~IsPublished(Store[id].status) /\ ~IsInProgress(Store[id].status)
              /\ FillStep(id, responses))
          => ~last'.ok /\ StoreNext = Store]_vars

\* C11: a review call on a survey whose status is not Under Review fails and
\* leaves every survey as it was; in particular no review call changes the
\* status of a Published, In Progress or Completed survey.
C11_ReviewNeedsUnderReview ==
    [][\A s \in DOMAIN Store :
          (last'.op = "review" /\ last'.sid = s
              /\ ~IsUnderReview(Store[s].status))
          => ~last'.ok /\ StoreNext = Store]_vars

\* C12: a submit-for-review call on a Draft survey succeeds and sets the
\* status Under Review; on a survey in any other status it fails and leaves
\* every survey as it was.
C12_SubmitForReviewNeedsDraft ==
    [][\A s \in DOMAIN Store :
          (last'.op = "submitForReview" /\ last'.sid = s)
          => IF IsDraft(Store[s].status)
             THEN last'.ok /\ IsUnderReview(StoreNext[s].status)
             ELSE ~last'.ok /\ StoreNext = Store]_vars

\* C13: a final submission succeeds only on a survey that is In Progress or
\* Published, and then sets the status Completed; on a survey in any other
\* status it fails and leaves the status as it was.
C13_SubmitFinalNeedsInProgress ==
    [][\A s \in DOMAIN Store :
          (last'.op = "submitFinal" /\ last'.sid = s)
          => /\ last'.ok => /\ IsInProgress(Store[s].status)
                               \/ IsPublished(Store[s].status)
                            /\ IsCompleted(StoreNext[s].status)
             /\ ~(IsInProgress(Store[s].status) \/ IsPublished(Store[s].status))
                => ~last'.ok /\ StoreNext[s].status = Store[s].status]_vars

\* C14: no step changes the status of a Completed or Rejected survey, and no
\* step changes the responses of a Completed survey.
C14_CompletedAndRejectedAreTerminal ==
    [][\A s \in DOMAIN Store :
          /\ (IsCompleted(Store[s].status) \/ IsRejected(Store[s].status))
             => StoreNext[s].status = Store[s].status
          /\ IsCompleted(Store[s].status)
             => StoreNext[s].responses = Store[s].responses]_vars

\* the notifications sent so far for survey s: the "Notification sent" records
\* of a Survey object's trail; the lines the SurveyManager's notifier printed
\* for s, whether the email or the error it caught
NotificationsOf(store, box, s) ==
    IF s \notin DOMAIN store THEN 0
    ELSE IF program = RoleClasses
    THEN Cardinality({i \in 1..Len(store[s].audit_trail) :
                         store[s].audit_trail[i].log
                            = NotificationLog(store[s].customer_id)})
    ELSE Cardinality({i \in 1..Len(box) : box[i].survey_id = s})

C16_FailedNotificationIsAudited ==
    [][\A s \in DOMAIN surveys :
          (/\ program = Manager
           /\ IsApproved(surveys[s].status)
           /\ SurveyManager_publish_survey(s, FALSE))
          => /\ IsPublished(surveys'[s].status)
             /\ last'.ok
             /\ \E i \in (Len(surveys[s].audit_trail) + 1)
                            ..Len(surveys'[s].audit_trail) :
                   surveys'[s].audit_trail[i].action # "Survey Published"]_vars

\* the outcome of a review call whose decision the program does not know
InvalidDecision ==
    /\ ~last'.ok
    /\ last'.message
          = (IF program = RoleClasses
             THEN "Error reviewing survey: Invalid decision provided."
             ELSE "Invalid decision.")
    /\ StoreNext = Store

C18_CreateValidates ==
    (last.op = "create" /\ last.ok)
    => /\ Len(Store[last.sid].questions) > 0
       /\ Store[last.sid].start_date <= Store[last.sid].end_date

C20_ExportIsReadOnly ==
    [][last'.op = "export"
       => /\ StoreNext = Store /\ outbox' = outbox /\ now' = now
          /\ \A s \in DOMAIN surveys :
                (program = Manager /\ last'.sid = s)
                => /\ last'.ok /\ Len(last'.output) = 1
                   /\ LET d == last'.output[1]
                      IN  /\ d.survey_id = s
                          /\ d.title = surveys[s].title
                          /\ d.status = surveys[s].status
                          /\ Deref(surveys', d.responses) = surveys[s].responses
                          /\ Deref(surveys', d.audit_trail)
                                = surveys[s].audit_trail]_vars

\* C20 witness: the SurveyManager has just exported a survey that is In
\* Progress and holds responses.
C20_Witness ==
    /\ program = Manager /\ last.op = "export" /\ last.ok
    /\ IsInProgress(surveys[last.sid].status)
    /\ surveys[last.sid].responses # EmptyDict
    /\ last.output[1].status = STATUS_IN_PROGRESS

\* C24: SurveyManager.review_survey called with a role other than Center of
\* Excellence fails with PermissionError (returns False) for every decision
\* and leaves every survey as it was; a survey becomes Approved or Rejected
\* only in a successful review step whose audit record names the Center of
\* Excellence.
C24_OnlyCoEReviews ==
    [][program = Manager
       => /\ \A id \in DOMAIN surveys \cap {last'.sid},
                role \in Roles \ {ROLE_COE}, decision \in Decisions :
                (last'.op = "review"
                    /\ SurveyManager_review_survey(id, role, decision))
                => /\ ~last'.ok /\ last'.raised = "PermissionError"
                   /\ surveys' = surveys
          /\ \A s \in DOMAIN surveys :
                (/\ surveys'[s].status # surveys[s].status
                 /\ IsApproved(surveys'[s].status)
                       \/ IsRejected(surveys'[s].status))
                => /\ last'.op = "review" /\ last'.ok /\ last'.sid = s
                   /\ surveys'[s].audit_trail[Len(surveys'[s].audit_trail)].role
                         = ROLE_COE]_vars

\* C24 witness: a review by another role has just been refused on a survey
\* that is pending review.
C24_Witness ==
    /\ program = Manager /\ last.op = "review" /\ ~last.ok
    /\ last.raised = "PermissionError"
    /\ surveys[last.sid].status = STATUS_PENDING_REVIEW

\* C25: a SurveyManager review, publish, response submission or export for an
\* id that is not in the store fails with "Survey not found." (returning False
\* or None, with no output), and leaves the stored surveys, their ids, the
\* notifier's output and the clock as they were.
C25_UnknownIdFails ==
    [][(/\ program = Manager
        /\ last'.op \in {"review", "publish", "fill", "submitFinal", "export"}
        /\ last'.sid \notin DOMAIN surveys)
       => /\ ~last'.ok /\ last'.message = "Survey not found."
          /\ last'.output = << >>
          /\ surveys' = surveys /\ outbox' = outbox /\ now' = now]_vars

\* C25 witness: an export for an unknown id has just failed while a survey is
\* stored.
C25_Witness ==
    /\ program = Manager /\ last.op = "export" /\ ~last.ok
    /\ last.sid \notin DOMAIN surveys /\ DOMAIN surveys # {}

\* C26: every step keeps every stored survey in the store, and leaves every
\* stored survey other than the one the call addresses exactly as it was.
C26_SurveysIsolated ==
    [][\A y \in DOMAIN Store :
          /\ y \in DOMAIN StoreNext
          /\ y # last'.sid => StoreNext[y] = Store[y]]_vars

\* C26 witness: two surveys are stored, a response submission to the second
\* has just succeeded, and the first still holds only its creation record.
C26_Witness ==
    /\ program = Manager /\ DOMAIN surveys = {1, 2}
    /\ last.op = "fill" /\ last.ok /\ last.sid = 2
    /\ Len(surveys[1].audit_trail) = 1 /\ surveys[1].responses = EmptyDict

\* C21: the responses and the audit trail read through a dict that
\* export_survey_data returned earlier are those the caller saw in it when it
\* was returned, whatever calls were made since.
C21_SnapshotImmutable ==
    \A i \in 1..Len(snapshot) :
       /\ Deref(surveys, snapshot[i].dict.responses) = snapshot[i].seen.responses
       /\ Deref(surveys, snapshot[i].dict.audit_trail)
             = snapshot[i].seen.audit_trail

\* the steps of the scenario done so far, of its seven: create,
\* submitForReview, review(approve), publish, fillResponses, fillResponses,
\* submitFinal.  A managed survey is created under review, so its creation
\* counts for the first two.
ScenarioStage ==
    IF program = RoleClasses
    THEN CASE ScenarioRecords = 5 -> 4
           [] ScenarioRecords > 5 -> ScenarioRecords - 1
           [] OTHER -> ScenarioRecords
    ELSE IF ScenarioRecords = 0 THEN 0 ELSE ScenarioRecords + 1

\* what the scenario says of the survey, but for its status after the two
\* non-final submissions
ScenarioHolds(survey) ==
    /\ survey.questions = <<"Q1", "Q2">> /\ survey.customer_id = "C1"
    /\ ScenarioStage = 2 => IsUnderReview(survey.status)
    /\ ScenarioStage = 3 => IsApproved(survey.status)
    /\ ScenarioStage = 4 => /\ IsPublished(survey.status)
                            /\ NotificationsOf(Store, outbox, 1) = 1
    /\ ScenarioStage = 5 => Answers(survey) = DictOf(FirstAnswers)
    /\ ScenarioStage = 6 => Answers(survey) = DictOf(SecondAnswers)
    /\ ScenarioStage = 7 => IsCompleted(survey.status)
    /\ ScenarioStage >= 4 => NotificationsOf(Store, outbox, 1) = 1

ApplyCall(c, survey, ts) ==
    CASE c.op = "publish" -> sm_publish_survey(survey, ts)
      [] c.op = "review" -> sm_review_survey(survey, c.role, c.decision, ts)
      [] OTHER -> sm_submit_response(survey, c.customer_id, c.responses,
                                     c.is_final, ts)

\* the shared survey after call c1 and then call c2, one after the other
Serial(c1, c2) ==
    LET r1 == ApplyCall(c1, SharedSurvey, Len(SharedSurvey.audit_trail))
    IN  ApplyCall(c2, r1.survey, Len(r1.survey.audit_trail)).survey

\* C23: when the two threads have both returned, the shared survey (status,
\* responses, audit trail) is the one that the two calls leave when made one
\* after the other, in one order or the other.
C23_CallsSerialized ==
    (threads # << >> /\ \A t \in Threads : threads[t].pc = "done")
    => \/ surveys[1] = Serial(threads[1].call, threads[2].call)
       \/ surveys[1] = Serial(threads[2].call, threads[1].call)

\* C27: the users collection holds at most one record for each
\* email_or_phone, and of the register requests for one email_or_phone at
\* most one is answered 201.
C27_OneUserPerEmailOrPhone ==
    /\ \A i, j \in 1..Len(users) :
          users[i].email_or_phone = users[j].email_or_phone => i = j
    /\ \A r, q \in DOMAIN requests :
          (/\ requests[r].response.status = 201
           /\ requests[q].response.status = 201
           /\ requests[r].body.email_or_phone = requests[q].body.email_or_phone)
          => r = q
====
